---- MODULE Spec2Model ----
(***************************************************************************)
(* Model of the Testbed's batched debug renderer                           *)
(* (Testbed/Framework/SimulationRenderer.cpp) and of the scene             *)
(* (de)serialisation layer (Testbed/Tests/SVQA/SceneState.h, JSONHelper.h).*)
(*                                                                         *)
(* The renderer keeps three batches (points, lines, triangles).  Each is   *)
(* a struct with parallel fixed-size arrays and a count; the model keeps   *)
(* the parallel arrays of one batch as one array of entries.               *)
(***************************************************************************)
EXTENDS Integers, Sequences, FiniteSets, TLC

(***************************************************************************)
(* Bounds of the model.                                                    *)
(***************************************************************************)
\* The literal 512 of the three e_maxVertices enumerators (512, 2 * 512,
\* 3 * 512), scaled down so that a batch fills up within a few calls.
BatchUnit == 1
\* Largest vertexCount of a polygon handed to the renderer.
MaxVertexCount == 3
\* Largest number of draw requests between two SimulationRenderer::Flush calls.
MaxFrameRequests == 2
\* Largest number of objects of a scene state.
MaxObjects == 2

\* How many times the renderer is created.
MaxLifetimes == 1

(***************************************************************************)
(* Values.                                                                 *)
(***************************************************************************)
\* A null pointer (m_points, m_lines, m_triangles before Create).
NULL == [null |-> TRUE]

\* The value of an array slot that holds no live entry: never written since
\* allocation, or written before the last Flush.  No code path reads a slot
\* at an index >= m_count, so the model does not keep what such a slot holds.
Stale == [stale |-> TRUE]

\* What a read outside an array yields.
OutOfBounds == [outOfBounds |-> TRUE]

\* Colour components are floats in [0, 1]; the model counts in quarters.
ColorOne == 4
ColorHalf == 2

b2Color(r, g, b) == [r |-> r, g |-> g, b |-> b, a |-> ColorOne]

b2Color4(r, g, b, a) == [r |-> r, g |-> g, b |-> b, a |-> a]

\* float * float on quarter units.
FMul(x, y) == (x * y) \div ColorOne

\* Inputs of the calls.
Red == b2Color(ColorOne, 0, 0)

Cyan == b2Color(0, ColorOne, ColorOne)

Colors == {Red, Cyan}

\* The arguments of a Vertex call on a batch: two entries that differ in
\* every argument.
PointArgs ==
    {[v |-> <<0, 0>>, c |-> Red, size |-> 4], [v |-> <<1, 0>>, c |-> Cyan, size |-> 10]}

LineArgs == {[v |-> <<0, 0>>, c |-> Red], [v |-> <<1, 0>>, c |-> Cyan]}

TriangleArgs == LineArgs

TexTriangleArgs ==
    {[v |-> <<0, 0>>, c |-> Red, t |-> <<0, 0>>, m |-> 0],
     [v |-> <<1, 0>>, c |-> Cyan, t |-> <<1, 0>>, m |-> 1]}

\* The arguments of the draw requests.
Segments == {[p1 |-> <<0, 0>>, p2 |-> <<1, 0>>]}

Points == {[p |-> <<2, 2>>, size |-> 4]}

\* A material of a textured draw request: the texture and its index.
Materials == {[glTexId |-> 7, matTexId |-> 0, color |-> Red],
              [glTexId |-> 9, matTexId |-> 1, color |-> Cyan]}

PolyVertex(i) == <<i, i * i>>

Polygons == {[i \in 1..n |-> PolyVertex(i)] : n \in 3..MaxVertexCount}

\* The texture coordinates a caller hands over with a polygon: one per vertex.
TextureCoordinates(vertices) == [i \in 1..Len(vertices) |-> <<vertices[i][1], 0>>]

\* A circle of a draw request, with the axis a solid circle is drawn with.
Circles == {[center |-> <<0, 0>>, radius |-> 1, axis |-> <<1, 0>>, color |-> Red],
            [center |-> <<2, 2>>, radius |-> 3, axis |-> <<0, 1>>, color |-> Cyan]}

\* b2Transform: a position and a rotation (here a quarter turn count).
Transforms == {[p |-> <<1, 1>>, q |-> 0]}

AABBs == {[lowerBound |-> <<0, 0>>, upperBound |-> <<2, 1>>]}

VideoPaths == {"", "out.mp4"}

VideoWidths == {640}

VideoHeights == {480}

(***************************************************************************)
(* Arrays (C arrays indexed from 0).                                       *)
(***************************************************************************)
NewArray(n) == [i \in 0..(n - 1) |-> Stale]

ArrayRead(arr, i) == IF i \in DOMAIN arr THEN arr[i] ELSE OutOfBounds

ArrayWrite(arr, i, e) == IF i \in DOMAIN arr THEN [arr EXCEPT ![i] = e] ELSE arr

(***************************************************************************)
(* State.                                                                  *)
(***************************************************************************)
VARIABLES
    RENDER_TEXTURES,  \* the compile-time capability flag of the build
    m_points,         \* GLRenderPoints* of the renderer (NULL or the struct)
    m_lines,          \* GLRenderLines*
    m_triangles,      \* GLRenderTriangles*
    m_bIsDebugMode,
    m_sPath,
    m_nWidth,
    m_nHeight,
    gl,               \* the binding state of the graphics context
    lastCall,         \* observer: the last call that drew or reached a batch, its
                      \* arguments and its trace
    frame             \* observer: the draw requests and draw calls of the frame

VARIABLES
    objects,          \* SceneState::objects
    files,            \* the file system: path -> text of the file, or NoFile
    saved,            \* observer: path -> the object list the program saved there
    sceneCall         \* observer: the last call on the scene state and its outcome

sceneVars == <<objects, files, saved, sceneCall>>

rendererVars == <<RENDER_TEXTURES, m_points, m_lines, m_triangles, m_bIsDebugMode,
                  m_sPath, m_nWidth, m_nHeight, gl, lastCall, frame>>

\* Nothing bound, nothing enabled, no object of the renderer alive.
GLUnbound ==
    [program |-> "0", vao |-> "0", arrayBuffer |-> "0", blend |-> FALSE,
     pointSize |-> FALSE, activeTexture |-> 0, tex |-> [u \in 0..1 |-> 0],
     vertexArrays |-> {}, buffers |-> {}, programs |-> {}, creations |-> 0]

\* glGenVertexArrays, glGenBuffers and glCreateProgram return names that are
\* not in use: the names of the batch in the creation the context is in.
GLName(object, g) == object \o "#" \o ToString(g.creations)

\* glGenVertexArrays(1, &m_vaoId); glGenBuffers(n, m_vboIds); sCreateShaderProgram:
\* the objects of a batch come to life.
GLGenerate(g, batch, n) ==
    [g EXCEPT !.vertexArrays = @ \cup {GLName(batch \o ".vao", g)},
              !.buffers = @ \cup {GLName(batch \o ".vbo" \o ToString(i), g) : i \in 0..(n - 1)},
              !.programs = @ \cup {GLName(batch \o ".program", g)}]

\* glDeleteVertexArrays(1, &vao); glDeleteBuffers(n, vbos)
GLDeleteArrays(g, vao, vbos, n) ==
    [g EXCEPT !.vertexArrays = @ \ {vao},
              !.buffers = @ \ {vbos[i] : i \in 0..(n - 1)}]

\* glDeleteProgram(program): a name that is not the name of a program is an error
\* and deletes nothing.
GLDeleteProgram(g, program) == [g EXCEPT !.programs = @ \ {program}]

\* glUseProgram(program): a name that is not the name of a program is an error
\* and leaves the program in use.
GLUseProgram(g, program) ==
    IF program \in g.programs THEN [g EXCEPT !.program = program] ELSE g

NoCall ==
    [op |-> "none", batch |-> "none", args |-> <<>>, events |-> <<>>, writes |-> <<>>]

EmptyFrame ==
    [requests |-> 0, done |-> FALSE, log |-> <<>>,
     appended |-> [b \in {"points", "lines", "triangles"} |-> <<>>]]

(***************************************************************************)
(* The batches.  An operator of a batch takes and returns                  *)
(*   [obj |-> the struct, ctx |-> [gl, events, writes]]                    *)
(* where gl is the binding state of the graphics context, events the       *)
(* uploads and draw calls issued so far by the running call, and writes    *)
(* the array indices written so far by the running call.                   *)
(***************************************************************************)
GLRenderPoints_e_maxVertices == BatchUnit

GLRenderLines_e_maxVertices == 2 * BatchUnit

GLRenderTriangles_e_maxVertices == 3 * BatchUnit

e_maxVertices(b) ==
    CASE b = "points" -> GLRenderPoints_e_maxVertices
      [] b = "lines" -> GLRenderLines_e_maxVertices
      [] b = "triangles" -> GLRenderTriangles_e_maxVertices

\* glBufferSubData(GL_ARRAY_BUFFER, 0, count * sizeof(element), array): the
\* first count elements of the array, as they are stored in the buffers.
Uploaded(arr, count) == [i \in 1..count |-> ArrayRead(arr, i - 1)]

\* glDrawArrays(mode, first, count) reads the buffers the last upload filled.
DrawEvent(b, buffers, first, count, g) ==
    [kind |-> "draw", batch |-> b, count |-> count,
     data |-> [i \in 1..count |-> IF first + i \in DOMAIN buffers
                                    THEN buffers[first + i] ELSE OutOfBounds],
     gl |-> g]

UploadEvent(b, buffers, g) ==
    [kind |-> "upload", batch |-> b, count |-> Len(buffers), data |-> buffers, gl |-> g]

GLRenderPoints_Create(ctx) ==
    [obj |-> [m_count |-> 0,
              m_entries |-> NewArray(GLRenderPoints_e_maxVertices),
              m_programId |-> GLName("points.program", ctx.gl),
              m_vaoId |-> GLName("points.vao", ctx.gl),
              m_vboIds |-> [i \in 0..2 |-> GLName("points.vbo" \o ToString(i), ctx.gl)]],
     ctx |-> [ctx EXCEPT !.gl = [GLGenerate(@, "points", 3) EXCEPT !.arrayBuffer = "0",
                                                                  !.vao = "0"]]]

\* if (m_vaoId) the vertex array and the first two buffers are deleted;
\* if (m_programId) the program is.
GLRenderPoints_Destroy(r) ==
    LET a == IF r.obj.m_vaoId /= "0"
             THEN GLDeleteArrays(r.ctx.gl, r.obj.m_vaoId, r.obj.m_vboIds, 2)
             ELSE r.ctx.gl
        b == IF r.obj.m_programId /= "0" THEN GLDeleteProgram(a, r.obj.m_programId) ELSE a
    IN [obj |-> [r.obj EXCEPT !.m_vaoId = "0", !.m_programId = "0"],
        ctx |-> [r.ctx EXCEPT !.gl = b]]

GLRenderPoints_Flush(r) ==
    IF r.obj.m_count = 0
    THEN r
    ELSE LET bound == [r.ctx.gl EXCEPT !.program = r.obj.m_programId,
                                       !.vao = r.obj.m_vaoId,
                                       !.arrayBuffer = r.obj.m_vboIds[2]]
             buffers == Uploaded(r.obj.m_entries, r.obj.m_count)
             drawing == [bound EXCEPT !.pointSize = TRUE]
         IN [obj |-> [r.obj EXCEPT !.m_count = 0,
                                   !.m_entries = NewArray(GLRenderPoints_e_maxVertices)],
             ctx |-> [r.ctx EXCEPT
                        !.gl = [drawing EXCEPT !.pointSize = FALSE, !.arrayBuffer = "0",
                                               !.vao = "0", !.program = "0"],
                        !.events = @ \o <<UploadEvent("points", buffers, bound),
                                          DrawEvent("points", buffers, 0, r.obj.m_count,
                                                    drawing)>>]]

\* GLRenderPoints::Vertex that flushes as soon as the batch is full, after the append.
GLRenderPoints_Vertex_FlushWhenFull(r, v, c, size) ==
    LET i == r.obj.m_count
        a == [obj |-> [r.obj EXCEPT
                         !.m_entries = ArrayWrite(@, i, [v |-> v, c |-> c, size |-> size]),
                         !.m_count = i + 1],
              ctx |-> [r.ctx EXCEPT !.writes = Append(@, [batch |-> "points", index |-> i,
                                                           entry |-> [v |-> v, c |-> c,
                                                                      size |-> size]])]]
    IN IF a.obj.m_count = GLRenderPoints_e_maxVertices THEN GLRenderPoints_Flush(a) ELSE a

GLRenderPoints_Vertex(r, v, c, size) ==
    LET f == IF r.obj.m_count = GLRenderPoints_e_maxVertices
             THEN GLRenderPoints_Flush(r) ELSE r
        i == f.obj.m_count
    IN [obj |-> [f.obj EXCEPT
                   !.m_entries = ArrayWrite(@, i, [v |-> v, c |-> c, size |-> size]),
                   !.m_count = i + 1],
        ctx |-> [f.ctx EXCEPT !.writes = Append(@, [batch |-> "points", index |-> i,
                                                     entry |-> [v |-> v, c |-> c,
                                                                size |-> size]])]]

GLRenderLines_Create(ctx) ==
    [obj |-> [m_count |-> 0,
              m_entries |-> NewArray(GLRenderLines_e_maxVertices),
              m_programId |-> GLName("lines.program", ctx.gl),
              m_vaoId |-> GLName("lines.vao", ctx.gl),
              m_vboIds |-> [i \in 0..1 |-> GLName("lines.vbo" \o ToString(i), ctx.gl)]],
     ctx |-> [ctx EXCEPT !.gl = [GLGenerate(@, "lines", 2) EXCEPT !.arrayBuffer = "0",
                                                                 !.vao = "0"]]]

GLRenderLines_Destroy(r) ==
    LET a == IF r.obj.m_vaoId /= "0"
             THEN GLDeleteArrays(r.ctx.gl, r.obj.m_vaoId, r.obj.m_vboIds, 2)
             ELSE r.ctx.gl
        b == IF r.obj.m_programId /= "0" THEN GLDeleteProgram(a, r.obj.m_programId) ELSE a
    IN [obj |-> [r.obj EXCEPT !.m_vaoId = "0", !.m_programId = "0"],
        ctx |-> [r.ctx EXCEPT !.gl = b]]

\* GLRenderLines::Flush whose draw call starts at the second vertex.
GLRenderLines_Flush_SkipsFirst(r) ==
    IF r.obj.m_count = 0
    THEN r
    ELSE LET bound == [r.ctx.gl EXCEPT !.program = r.obj.m_programId,
                                       !.vao = r.obj.m_vaoId,
                                       !.arrayBuffer = r.obj.m_vboIds[1]]
             buffers == Uploaded(r.obj.m_entries, r.obj.m_count)
         IN [obj |-> [r.obj EXCEPT !.m_count = 0,
                                   !.m_entries = NewArray(GLRenderLines_e_maxVertices)],
             ctx |-> [r.ctx EXCEPT
                        !.gl = [bound EXCEPT !.arrayBuffer = "0", !.vao = "0",
                                             !.program = "0"],
                        !.events = @ \o <<UploadEvent("lines", buffers, bound),
                                          DrawEvent("lines", buffers, 1, r.obj.m_count - 1,
                                                    bound)>>]]

GLRenderLines_Flush(r) ==
    IF r.obj.m_count = 0
    THEN r
    ELSE LET bound == [r.ctx.gl EXCEPT !.program = r.obj.m_programId,
                                       !.vao = r.obj.m_vaoId,
                                       !.arrayBuffer = r.obj.m_vboIds[1]]
             buffers == Uploaded(r.obj.m_entries, r.obj.m_count)
         IN [obj |-> [r.obj EXCEPT !.m_count = 0,
                                   !.m_entries = NewArray(GLRenderLines_e_maxVertices)],
             ctx |-> [r.ctx EXCEPT
                        !.gl = [bound EXCEPT !.arrayBuffer = "0", !.vao = "0",
                                             !.program = "0"],
                        !.events = @ \o <<UploadEvent("lines", buffers, bound),
                                          DrawEvent("lines", buffers, 0, r.obj.m_count,
                                                    bound)>>]]

\* GLRenderLines::Vertex that flushes only once the count is past the capacity.
GLRenderLines_Vertex_LateFlush(r, v, c) ==
    LET f == IF r.obj.m_count > GLRenderLines_e_maxVertices
             THEN GLRenderLines_Flush(r) ELSE r
        i == f.obj.m_count
    IN [obj |-> [f.obj EXCEPT !.m_entries = ArrayWrite(@, i, [v |-> v, c |-> c]),
                              !.m_count = i + 1],
        ctx |-> [f.ctx EXCEPT !.writes = Append(@, [batch |-> "lines", index |-> i,
                                                     entry |-> [v |-> v, c |-> c]])]]

GLRenderLines_Vertex(r, v, c) ==
    LET f == IF r.obj.m_count = GLRenderLines_e_maxVertices
             THEN GLRenderLines_Flush(r) ELSE r
        i == f.obj.m_count
    IN [obj |-> [f.obj EXCEPT !.m_entries = ArrayWrite(@, i, [v |-> v, c |-> c]),
                              !.m_count = i + 1],
        ctx |-> [f.ctx EXCEPT !.writes = Append(@, [batch |-> "lines", index |-> i,
                                                     entry |-> [v |-> v, c |-> c]])]]

\* The struct of the build without textures (#else branch).
GLRenderTriangles_Create(ctx) ==
    [obj |-> [m_count |-> 0,
              m_entries |-> NewArray(GLRenderTriangles_e_maxVertices),
              m_programId |-> GLName("triangles.program", ctx.gl),
              m_vaoId |-> GLName("triangles.vao", ctx.gl),
              m_vboIds |-> [i \in 0..1 |-> GLName("triangles.vbo" \o ToString(i), ctx.gl)]],
     ctx |-> [ctx EXCEPT !.gl = [GLGenerate(@, "triangles", 2) EXCEPT !.arrayBuffer = "0",
                                                                     !.vao = "0"]]]

GLRenderTriangles_Destroy(r) ==
    LET a == IF r.obj.m_vaoId /= "0"
             THEN GLDeleteArrays(r.ctx.gl, r.obj.m_vaoId, r.obj.m_vboIds, 2)
             ELSE r.ctx.gl
        b == IF r.obj.m_programId /= "0" THEN GLDeleteProgram(a, r.obj.m_programId) ELSE a
    IN [obj |-> [r.obj EXCEPT !.m_vaoId = "0", !.m_programId = "0"],
        ctx |-> [r.ctx EXCEPT !.gl = b]]

\* GLRenderTriangles::Flush whose draw call leaves out the last buffered entry.
GLRenderTriangles_Flush_DrawsOneLess(r) ==
    IF r.obj.m_count = 0
    THEN r
    ELSE LET bound == [r.ctx.gl EXCEPT !.program = r.obj.m_programId,
                                       !.vao = r.obj.m_vaoId,
                                       !.arrayBuffer = r.obj.m_vboIds[1]]
             buffers == Uploaded(r.obj.m_entries, r.obj.m_count)
             drawing == [bound EXCEPT !.blend = TRUE]
         IN [obj |-> [r.obj EXCEPT !.m_count = 0,
                                   !.m_entries = NewArray(GLRenderTriangles_e_maxVertices)],
             ctx |-> [r.ctx EXCEPT
                        !.gl = [drawing EXCEPT !.blend = FALSE, !.arrayBuffer = "0",
                                               !.vao = "0", !.program = "0"],
                        !.events = @ \o <<UploadEvent("triangles", buffers, bound),
                                          DrawEvent("triangles", buffers, 0,
                                                    r.obj.m_count - 1, drawing)>>]]

GLRenderTriangles_Flush(r) ==
    IF r.obj.m_count = 0
    THEN r
    ELSE LET bound == [r.ctx.gl EXCEPT !.program = r.obj.m_programId,
                                       !.vao = r.obj.m_vaoId,
                                       !.arrayBuffer = r.obj.m_vboIds[1]]
             buffers == Uploaded(r.obj.m_entries, r.obj.m_count)
             drawing == [bound EXCEPT !.blend = TRUE]
         IN [obj |-> [r.obj EXCEPT !.m_count = 0,
                                   !.m_entries = NewArray(GLRenderTriangles_e_maxVertices)],
             ctx |-> [r.ctx EXCEPT
                        !.gl = [drawing EXCEPT !.blend = FALSE, !.arrayBuffer = "0",
                                               !.vao = "0", !.program = "0"],
                        !.events = @ \o <<UploadEvent("triangles", buffers, bound),
                                          DrawEvent("triangles", buffers, 0, r.obj.m_count,
                                                    drawing)>>]]

GLRenderTriangles_Vertex(r, v, c) ==
    LET f == IF r.obj.m_count = GLRenderTriangles_e_maxVertices
             THEN GLRenderTriangles_Flush(r) ELSE r
        i == f.obj.m_count
    IN [obj |-> [f.obj EXCEPT !.m_entries = ArrayWrite(@, i, [v |-> v, c |-> c]),
                              !.m_count = i + 1],
        ctx |-> [f.ctx EXCEPT !.writes = Append(@, [batch |-> "triangles", index |-> i,
                                                     entry |-> [v |-> v, c |-> c]])]]

\* The struct of the build with textures (#if RENDER_TEXTURES branch).
\* m_vboIds is declared GLuint m_vboIds[3] and glGenBuffers(4, m_vboIds) writes
\* four names: the fourth goes past the array, where m_programId is declared,
\* after m_programId was assigned.  Index 3 below is that storage read as the
\* name of a buffer; m_programId is the same storage read as the name of a
\* program, which names the program of the batch when the two numbers happen
\* to be equal (aliased) and names no program otherwise.
GLRenderTrianglesTex_Create(ctx, aliased) ==
    [obj |-> [m_count |-> 0,
              m_entries |-> NewArray(GLRenderTriangles_e_maxVertices),
              m_textureIds |-> [i \in 0..1 |-> -1],
              m_programId |-> IF aliased THEN GLName("triangles.program", ctx.gl)
                                         ELSE GLName("triangles.vbo3", ctx.gl),
              m_vaoId |-> GLName("triangles.vao", ctx.gl),
              m_vboIds |-> [i \in 0..3 |-> GLName("triangles.vbo" \o ToString(i), ctx.gl)]],
     ctx |-> [ctx EXCEPT !.gl = [GLGenerate(@, "triangles", 4) EXCEPT !.arrayBuffer = "0",
                                                                     !.vao = "0"]]]

GLRenderTrianglesTex_Destroy(r) ==
    LET a == IF r.obj.m_vaoId /= "0"
             THEN GLDeleteArrays(r.ctx.gl, r.obj.m_vaoId, r.obj.m_vboIds, 4)
             ELSE r.ctx.gl
        b == IF r.obj.m_programId /= "0" THEN GLDeleteProgram(a, r.obj.m_programId) ELSE a
    IN [obj |-> [r.obj EXCEPT !.m_vaoId = "0", !.m_programId = "0"],
        ctx |-> [r.ctx EXCEPT !.gl = b]]

GLRenderTrianglesTex_Flush(r) ==
    IF r.obj.m_count = 0
    THEN r
    ELSE LET bound == [GLUseProgram(r.ctx.gl, r.obj.m_programId)
                         EXCEPT !.vao = r.obj.m_vaoId,
                                !.arrayBuffer = r.obj.m_vboIds[3]]
             buffers == Uploaded(r.obj.m_entries, r.obj.m_count)
             tex0 == IF r.obj.m_textureIds[0] > 0
                     THEN [bound EXCEPT !.activeTexture = 0,
                                        !.tex[0] = r.obj.m_textureIds[0]]
                     ELSE bound
             tex1 == IF r.obj.m_textureIds[1] > 0
                     THEN [tex0 EXCEPT !.activeTexture = 1,
                                       !.tex[1] = r.obj.m_textureIds[1]]
                     ELSE tex0
             drawing == [tex1 EXCEPT !.blend = TRUE]
         IN [obj |-> [r.obj EXCEPT !.m_count = 0,
                                   !.m_entries = NewArray(GLRenderTriangles_e_maxVertices)],
             ctx |-> [r.ctx EXCEPT
                        !.gl = [drawing EXCEPT !.blend = FALSE, !.arrayBuffer = "0",
                                               !.vao = "0", !.program = "0"],
                        !.events = @ \o <<UploadEvent("triangles", buffers, bound),
                                          DrawEvent("triangles", buffers, 0, r.obj.m_count,
                                                    drawing)>>]]

GLRenderTrianglesTex_Vertex(r, v, c, t, m) ==
    LET f == IF r.obj.m_count = GLRenderTriangles_e_maxVertices
             THEN GLRenderTrianglesTex_Flush(r) ELSE r
        i == f.obj.m_count
    IN [obj |-> [f.obj EXCEPT
                   !.m_entries = ArrayWrite(@, i, [v |-> v, c |-> c, t |-> t, m |-> m]),
                   !.m_count = i + 1],
        ctx |-> [f.ctx EXCEPT !.writes = Append(@, [batch |-> "triangles", index |-> i,
                                                     entry |-> [v |-> v, c |-> c, t |-> t,
                                                                m |-> m]])]]

(***************************************************************************)
(* The renderer.  An operator of SimulationRenderer takes and returns      *)
(*   [points, lines, triangles, ctx]                                       *)
(* the three structs the renderer points to and the context of the call.   *)
(***************************************************************************)
Batches == {"points", "lines", "triangles"}

OnPoints(st) == [obj |-> st.points, ctx |-> st.ctx]

OnLines(st) == [obj |-> st.lines, ctx |-> st.ctx]

OnTriangles(st) == [obj |-> st.triangles, ctx |-> st.ctx]

WithPoints(st, r) == [st EXCEPT !.points = r.obj, !.ctx = r.ctx]

WithLines(st, r) == [st EXCEPT !.lines = r.obj, !.ctx = r.ctx]

WithTriangles(st, r) == [st EXCEPT !.triangles = r.obj, !.ctx = r.ctx]

\* SimulationRenderer.hpp is not part of the sources at hand: video output is
\* on when an output path has been set.
writingToVideo(path) == path /= ""

SimulationRenderer_Create(tex, aliased, st) ==
    LET p == GLRenderPoints_Create([st.ctx EXCEPT !.gl.creations = @ + 1])
        l == GLRenderLines_Create(p.ctx)
        t == IF tex THEN GLRenderTrianglesTex_Create(l.ctx, aliased)
                    ELSE GLRenderTriangles_Create(l.ctx)
    IN [points |-> p.obj, lines |-> l.obj, triangles |-> t.obj, ctx |-> t.ctx]

\* Destroy and delete of each batch, then the pointer is set to NULL.
SimulationRenderer_Destroy(tex, st) ==
    LET p == GLRenderPoints_Destroy(OnPoints(st))
        l == GLRenderLines_Destroy([obj |-> st.lines, ctx |-> p.ctx])
        t == IF tex THEN GLRenderTrianglesTex_Destroy([obj |-> st.triangles, ctx |-> l.ctx])
                    ELSE GLRenderTriangles_Destroy([obj |-> st.triangles, ctx |-> l.ctx])
    IN [points |-> NULL, lines |-> NULL, triangles |-> NULL, ctx |-> t.ctx]

\* The loop of DrawPolygon, from index i (0-based) on; p1 is the previous vertex.
RECURSIVE PolygonLoop(_, _, _, _, _)
PolygonLoop(r, vertices, color, p1, i) ==
    IF i < Len(vertices)
    THEN LET p2 == vertices[i + 1]
             a == GLRenderLines_Vertex(r, p1, color)
             b == GLRenderLines_Vertex(a, p2, color)
         IN PolygonLoop(b, vertices, color, p2, i + 1)
    ELSE r

\* SimulationRenderer::DrawPolygon that starts at the first vertex: the loop is not closed.
SimulationRenderer_DrawPolygon_Open(st, vertices, color) ==
    WithLines(st, PolygonLoop(OnLines(st), vertices, color, vertices[1], 0))

SimulationRenderer_DrawPolygon(st, vertices, color) ==
    WithLines(st, PolygonLoop(OnLines(st), vertices, color, vertices[Len(vertices)], 0))

\* The fan loop of DrawSolidPolygon, from index i (0-based) on.
RECURSIVE SolidFanLoop(_, _, _, _)
SolidFanLoop(r, vertices, fillColor, i) ==
    IF i < Len(vertices) - 1
    THEN LET a == GLRenderTriangles_Vertex(r, vertices[1], fillColor)
             b == GLRenderTriangles_Vertex(a, vertices[i + 1], fillColor)
             c == GLRenderTriangles_Vertex(b, vertices[i + 2], fillColor)
         IN SolidFanLoop(c, vertices, fillColor, i + 1)
    ELSE r

\* The fan loop of DrawTexturedPolygon, from index i (0-based) on.
RECURSIVE TexturedFanLoop(_, _, _, _, _, _)
TexturedFanLoop(r, vertices, textureCoordinates, fillColor, matTexId, i) ==
    IF i < Len(vertices) - 1
    THEN LET a == GLRenderTrianglesTex_Vertex(r, vertices[1], fillColor,
                                              textureCoordinates[1], matTexId)
             b == GLRenderTrianglesTex_Vertex(a, vertices[i + 1], fillColor,
                                              textureCoordinates[i + 1], matTexId)
             c == GLRenderTrianglesTex_Vertex(b, vertices[i + 2], fillColor,
                                              textureCoordinates[i + 2], matTexId)
         IN TexturedFanLoop(c, vertices, textureCoordinates, fillColor, matTexId, i + 1)
    ELSE r

FillColor(debug, color) ==
    LET transConst == IF debug THEN ColorHalf ELSE ColorOne
    IN b2Color4(FMul(transConst, color.r), FMul(transConst, color.g),
                FMul(transConst, color.b), transConst)

SimulationRenderer_DrawSolidPolygon(tex, debug, st, vertices, color) ==
    IF tex
    THEN st
    ELSE LET filled == WithTriangles(st, SolidFanLoop(OnTriangles(st), vertices,
                                                      FillColor(debug, color), 1))
         IN IF debug
            THEN WithLines(filled, PolygonLoop(OnLines(filled), vertices, color,
                                               vertices[Len(vertices)], 0))
            ELSE filled

SimulationRenderer_DrawTexturedPolygon(tex, debug, st, vertices, textureCoordinates, color, glTexId, matTexId) ==
    IF tex
    THEN LET tagged == [st EXCEPT !.triangles.m_textureIds[matTexId] = glTexId]
             filled == WithTriangles(tagged,
                           TexturedFanLoop(OnTriangles(tagged), vertices,
                                           textureCoordinates, FillColor(debug, color),
                                           matTexId, 1))
         IN IF debug
            THEN WithLines(filled, PolygonLoop(OnLines(filled), vertices, color,
                                               vertices[Len(vertices)], 0))
            ELSE filled
    ELSE SimulationRenderer_DrawSolidPolygon(tex, debug, st, vertices, color)

\* const float32 k_segments = 16.0f
k_segments == 16

\* center + radius * r, where r is (1, 0) rotated step times by k_increment
\* (the loops rotate r1 incrementally; the floats are kept symbolic).
CirclePoint(center, radius, step) == <<1, center[1], center[2], radius, step>>

\* center + radius * axis
AxisPoint(center, radius, axis) == <<2, center[1], center[2], radius, axis[1], axis[2]>>

\* p + k_axisScale * (the x axis (0) or the y axis (1) of the rotation q)
TransformAxisPoint(xf, axis) == <<3, xf.p[1], xf.p[2], xf.q, axis>>

\* The outline loop of the circle requests from iteration i on; v1 is the
\* point of the given step.  An iteration ends with Vertex, which leaves a
\* positive count: the test on it makes the evaluation finish an iteration
\* before it starts the next.
RECURSIVE CircleLoop(_, _, _, _, _, _)
CircleLoop(r, center, radius, color, step, i) ==
    IF i < k_segments
    THEN LET v1 == CirclePoint(center, radius, step)
             v2 == CirclePoint(center, radius, step + 1)
             a == GLRenderLines_Vertex(r, v1, color)
             b == GLRenderLines_Vertex(a, v2, color)
         IN IF b.obj.m_count > 0
            THEN CircleLoop(b, center, radius, color, step + 1, i + 1)
            ELSE b
    ELSE r

SimulationRenderer_DrawCircle(st, center, radius, color) ==
    WithLines(st, CircleLoop(OnLines(st), center, radius, color, 0, 0))

\* The fan loop of DrawSolidCircle from iteration i on.
RECURSIVE CircleFanLoop(_, _, _, _, _, _)
CircleFanLoop(r, center, radius, fillColor, step, i) ==
    IF i < k_segments
    THEN LET v1 == CirclePoint(center, radius, step)
             v2 == CirclePoint(center, radius, step + 1)
             a == GLRenderTriangles_Vertex(r, center, fillColor)
             b == GLRenderTriangles_Vertex(a, v1, fillColor)
             c == GLRenderTriangles_Vertex(b, v2, fillColor)
         IN IF c.obj.m_count > 0
            THEN CircleFanLoop(c, center, radius, fillColor, step + 1, i + 1)
            ELSE c
    ELSE r

\* b2Color fillColor(0.5f * color.r, 0.5f * color.g, 0.5f * color.b, 0.5f)
CircleFillColor(color) ==
    b2Color4(FMul(ColorHalf, color.r), FMul(ColorHalf, color.g), FMul(ColorHalf, color.b),
             ColorHalf)

\* r1(cosInc, sinInc) is (1, 0) rotated once: the fan starts at step 1.
SimulationRenderer_DrawSolidCircle(tex, debug, st, center, radius, axis, color) ==
    IF tex
    THEN st
    ELSE LET filled == WithTriangles(st, CircleFanLoop(OnTriangles(st), center, radius,
                                                       CircleFillColor(color), 1, 0))
         IN IF debug
            THEN LET outlined == CircleLoop(OnLines(filled), center, radius, color, 0, 0)
                     a == GLRenderLines_Vertex(outlined, center, color)
                     b == GLRenderLines_Vertex(a, AxisPoint(center, radius, axis), color)
                 IN WithLines(filled, b)
            ELSE filled

Green == b2Color(0, ColorOne, 0)

\* SimulationRenderer::DrawTransform that appends the origin once for both axes.
SimulationRenderer_DrawTransform_SharedOrigin(st, xf) ==
    LET a == GLRenderLines_Vertex(OnLines(st), xf.p, Red)
        b == GLRenderLines_Vertex(a, TransformAxisPoint(xf, 0), Red)
        d == GLRenderLines_Vertex(b, TransformAxisPoint(xf, 1), Green)
    IN WithLines(st, d)

SimulationRenderer_DrawTransform(st, xf) ==
    LET a == GLRenderLines_Vertex(OnLines(st), xf.p, Red)
        b == GLRenderLines_Vertex(a, TransformAxisPoint(xf, 0), Red)
        c == GLRenderLines_Vertex(b, xf.p, Green)
        d == GLRenderLines_Vertex(c, TransformAxisPoint(xf, 1), Green)
    IN WithLines(st, d)

SimulationRenderer_DrawAABB(st, aabb, c) ==
    LET p1 == aabb.lowerBound
        p2 == <<aabb.upperBound[1], aabb.lowerBound[2]>>
        p3 == aabb.upperBound
        p4 == <<aabb.lowerBound[1], aabb.upperBound[2]>>
        s1 == GLRenderLines_Vertex(GLRenderLines_Vertex(OnLines(st), p1, c), p2, c)
        s2 == GLRenderLines_Vertex(GLRenderLines_Vertex(s1, p2, c), p3, c)
        s3 == GLRenderLines_Vertex(GLRenderLines_Vertex(s2, p3, c), p4, c)
        s4 == GLRenderLines_Vertex(GLRenderLines_Vertex(s3, p4, c), p1, c)
    IN WithLines(st, s4)

SimulationRenderer_DrawSegment(st, p1, p2, color) ==
    LET a == GLRenderLines_Vertex(OnLines(st), p1, color)
        b == GLRenderLines_Vertex(a, p2, color)
    IN WithLines(st, b)

SimulationRenderer_DrawPoint(st, p, size, color) ==
    WithPoints(st, GLRenderPoints_Vertex(OnPoints(st), p, color, size))

VideoEvent(width, height, g) ==
    [kind |-> "video", batch |-> "none", count |-> 0, data |-> <<width, height>>, gl |-> g]

\* SimulationRenderer::Flush that flushes the lines before the triangles.
SimulationRenderer_Flush_LinesFirst(tex, path, width, height, st) ==
    LET l == WithLines(st, GLRenderLines_Flush(OnLines(st)))
        t == WithTriangles(l, IF tex THEN GLRenderTrianglesTex_Flush(OnTriangles(l))
                                     ELSE GLRenderTriangles_Flush(OnTriangles(l)))
        p == WithPoints(t, GLRenderPoints_Flush(OnPoints(t)))
    IN IF writingToVideo(path)
       THEN [p EXCEPT !.ctx.events = Append(@, VideoEvent(width, height, p.ctx.gl))]
       ELSE p

SimulationRenderer_Flush(tex, path, width, height, st) ==
    LET t == WithTriangles(st, IF tex THEN GLRenderTrianglesTex_Flush(OnTriangles(st))
                                      ELSE GLRenderTriangles_Flush(OnTriangles(st)))
        l == WithLines(t, GLRenderLines_Flush(OnLines(t)))
        p == WithPoints(l, GLRenderPoints_Flush(OnPoints(l)))
    IN IF writingToVideo(path)
       THEN [p EXCEPT !.ctx.events = Append(@, VideoEvent(width, height, p.ctx.gl))]
       ELSE p

(***************************************************************************)
(* Actions of the renderer.                                                *)
(***************************************************************************)
Cur ==
    [points |-> m_points, lines |-> m_lines, triangles |-> m_triangles,
     ctx |-> [gl |-> gl, events |-> <<>>, writes |-> <<>>]]

Created == m_points /= NULL

Commit(st, op, batch, args) ==
    /\ m_points' = st.points
    /\ m_lines' = st.lines
    /\ m_triangles' = st.triangles
    /\ gl' = st.ctx.gl
    /\ lastCall' = [op |-> op, batch |-> batch, args |-> args,
                    events |-> st.ctx.events, writes |-> st.ctx.writes]

EntriesWritten(writes, b) ==
    LET ws == SelectSeq(writes, LAMBDA w : w.batch = b)
    IN [i \in 1..Len(ws) |-> ws[i].entry]

\* The frame a call belongs to: a call after SimulationRenderer::Flush opens a new one.
OpenFrame == IF frame.done THEN EmptyFrame ELSE frame

FrameOfRequest(st) ==
    [requests |-> OpenFrame.requests + 1,
     done |-> FALSE,
     log |-> OpenFrame.log \o st.ctx.events,
     appended |-> [b \in Batches |->
                     OpenFrame.appended[b] \o EntriesWritten(st.ctx.writes, b)]]

FrameOfFlush(st) ==
    [OpenFrame EXCEPT !.done = TRUE, !.log = @ \o st.ctx.events]

MayRequest == Created /\ OpenFrame.requests < MaxFrameRequests

settingVars == <<RENDER_TEXTURES, m_bIsDebugMode, m_sPath, m_nWidth, m_nHeight>>

\* In the build with textures the write past m_vboIds has either outcome.
Create ==
    /\ ~Created
    /\ gl.creations < MaxLifetimes
    /\ \E aliased \in (IF RENDER_TEXTURES THEN BOOLEAN ELSE {TRUE}) :
         Commit(SimulationRenderer_Create(RENDER_TEXTURES, aliased, Cur),
                "Create", "none", <<>>)
    /\ UNCHANGED <<settingVars, frame, sceneVars>>

Destroy ==
    /\ Created
    /\ Commit(SimulationRenderer_Destroy(RENDER_TEXTURES, Cur), "Destroy", "none", <<>>)
    /\ UNCHANGED <<settingVars, frame, sceneVars>>

\* Calls on the batches themselves.
PointsVertex ==
    /\ Created
    /\ \E e \in PointArgs :
         Commit(WithPoints(Cur, GLRenderPoints_Vertex(OnPoints(Cur), e.v, e.c, e.size)),
                "Vertex", "points", e)
    /\ UNCHANGED <<settingVars, frame, sceneVars>>

LinesVertex ==
    /\ Created
    /\ \E e \in LineArgs :
         Commit(WithLines(Cur, GLRenderLines_Vertex(OnLines(Cur), e.v, e.c)),
                "Vertex", "lines", e)
    /\ UNCHANGED <<settingVars, frame, sceneVars>>

TrianglesVertex ==
    /\ Created
    /\ ~RENDER_TEXTURES
    /\ \E e \in TriangleArgs :
         Commit(WithTriangles(Cur, GLRenderTriangles_Vertex(OnTriangles(Cur), e.v, e.c)),
                "Vertex", "triangles", e)
    /\ UNCHANGED <<settingVars, frame, sceneVars>>

TrianglesTexVertex ==
    /\ Created
    /\ RENDER_TEXTURES
    /\ \E e \in TexTriangleArgs :
         Commit(WithTriangles(Cur, GLRenderTrianglesTex_Vertex(OnTriangles(Cur), e.v, e.c,
                                                               e.t, e.m)),
                "Vertex", "triangles", e)
    /\ UNCHANGED <<settingVars, frame, sceneVars>>

PointsFlush ==
    /\ Created
    /\ Commit(WithPoints(Cur, GLRenderPoints_Flush(OnPoints(Cur))), "Flush", "points", <<>>)
    /\ UNCHANGED <<settingVars, frame, sceneVars>>

LinesFlush ==
    /\ Created
    /\ Commit(WithLines(Cur, GLRenderLines_Flush(OnLines(Cur))), "Flush", "lines", <<>>)
    /\ UNCHANGED <<settingVars, frame, sceneVars>>

TrianglesFlush ==
    /\ Created
    /\ Commit(WithTriangles(Cur, IF RENDER_TEXTURES
                                 THEN GLRenderTrianglesTex_Flush(OnTriangles(Cur))
                                 ELSE GLRenderTriangles_Flush(OnTriangles(Cur))),
              "Flush", "triangles", <<>>)
    /\ UNCHANGED <<settingVars, frame, sceneVars>>

\* Calls on the renderer.
DrawSegment ==
    /\ MayRequest
    /\ \E s \in Segments, color \in Colors :
         LET st == SimulationRenderer_DrawSegment(Cur, s.p1, s.p2, color)
         IN /\ Commit(st, "DrawSegment", "none",
                      [p1 |-> s.p1, p2 |-> s.p2, color |-> color])
            /\ frame' = FrameOfRequest(st)
    /\ UNCHANGED <<settingVars, sceneVars>>

DrawPoint ==
    /\ MayRequest
    /\ \E a \in Points, color \in Colors :
         LET st == SimulationRenderer_DrawPoint(Cur, a.p, a.size, color)
         IN /\ Commit(st, "DrawPoint", "none",
                      [p |-> a.p, size |-> a.size, color |-> color])
            /\ frame' = FrameOfRequest(st)
    /\ UNCHANGED <<settingVars, sceneVars>>

DrawSolidPolygon ==
    /\ MayRequest
    /\ \E vertices \in Polygons, color \in Colors :
         LET st == SimulationRenderer_DrawSolidPolygon(RENDER_TEXTURES, m_bIsDebugMode,
                                                       Cur, vertices, color)
         IN /\ Commit(st, "DrawSolidPolygon", "none",
                      [vertices |-> vertices, color |-> color])
            /\ frame' = FrameOfRequest(st)
    /\ UNCHANGED <<settingVars, sceneVars>>

DrawPolygon ==
    /\ MayRequest
    /\ \E vertices \in Polygons, color \in Colors :
         LET st == SimulationRenderer_DrawPolygon(Cur, vertices, color)
         IN /\ Commit(st, "DrawPolygon", "none", [vertices |-> vertices, color |-> color])
            /\ frame' = FrameOfRequest(st)
    /\ UNCHANGED <<settingVars, sceneVars>>

DrawCircle ==
    /\ MayRequest
    /\ \E a \in Circles :
         LET st == SimulationRenderer_DrawCircle(Cur, a.center, a.radius, a.color)
         IN /\ Commit(st, "DrawCircle", "none",
                      [center |-> a.center, radius |-> a.radius, color |-> a.color])
            /\ frame' = FrameOfRequest(st)
    /\ UNCHANGED <<settingVars, sceneVars>>

DrawSolidCircle ==
    /\ MayRequest
    /\ \E a \in Circles :
         LET st == SimulationRenderer_DrawSolidCircle(RENDER_TEXTURES, m_bIsDebugMode, Cur,
                                                      a.center, a.radius, a.axis, a.color)
         IN /\ Commit(st, "DrawSolidCircle", "none", a)
            /\ frame' = FrameOfRequest(st)
    /\ UNCHANGED <<settingVars, sceneVars>>

DrawTransform ==
    /\ MayRequest
    /\ \E xf \in Transforms :
         LET st == SimulationRenderer_DrawTransform(Cur, xf)
         IN /\ Commit(st, "DrawTransform", "none", [xf |-> xf])
            /\ frame' = FrameOfRequest(st)
    /\ UNCHANGED <<settingVars, sceneVars>>

DrawAABB ==
    /\ MayRequest
    /\ \E aabb \in AABBs, c \in Colors :
         LET st == SimulationRenderer_DrawAABB(Cur, aabb, c)
         IN /\ Commit(st, "DrawAABB", "none", [aabb |-> aabb, c |-> c])
            /\ frame' = FrameOfRequest(st)
    /\ UNCHANGED <<settingVars, sceneVars>>

DrawTexturedPolygon ==
    /\ MayRequest
    /\ \E vertices \in Polygons, m \in Materials :
         LET st == SimulationRenderer_DrawTexturedPolygon(
                       RENDER_TEXTURES, m_bIsDebugMode, Cur, vertices,
                       TextureCoordinates(vertices), m.color, m.glTexId, m.matTexId)
         IN /\ Commit(st, "DrawTexturedPolygon", "none",
                      [vertices |-> vertices, color |-> m.color, glTexId |-> m.glTexId,
                       matTexId |-> m.matTexId])
            /\ frame' = FrameOfRequest(st)
    /\ UNCHANGED <<settingVars, sceneVars>>

Flush ==
    /\ Created
    /\ LET st == SimulationRenderer_Flush(RENDER_TEXTURES, m_sPath, m_nWidth, m_nHeight, Cur)
       IN /\ Commit(st, "Flush", "none", <<>>)
          /\ frame' = FrameOfFlush(st)
    /\ UNCHANGED <<settingVars, sceneVars>>

setIsDebugMode ==
    /\ \E isDebug \in BOOLEAN : m_bIsDebugMode' = isDebug
    /\ UNCHANGED <<RENDER_TEXTURES, m_points, m_lines, m_triangles, m_sPath, m_nWidth,
                   m_nHeight, gl, lastCall, frame, sceneVars>>

setFileOutput ==
    /\ \E filePath \in VideoPaths, width \in VideoWidths, height \in VideoHeights :
         /\ m_sPath' = filePath
         /\ m_nWidth' = width
         /\ m_nHeight' = height
    /\ UNCHANGED <<RENDER_TEXTURES, m_points, m_lines, m_triangles, m_bIsDebugMode, gl,
                   lastCall, frame, sceneVars>>


(***************************************************************************)
(* JSON documents and their text.                                          *)
(*                                                                         *)
(* A document is null, a number, a string, an array of documents or an     *)
(* object (keys to documents).  The text of a file is a sequence of        *)
(* tokens.                                                                 *)
(***************************************************************************)
JNull == [type |-> "null"]

JNumber(n) == [type |-> "number", n |-> n]

JString(str) == [type |-> "string", s |-> str]

JArray(elems) == [type |-> "array", elems |-> elems]

JObject(members) == [type |-> "object", members |-> members]

Punct(c) == [t |-> "punct", s |-> c]

NullToken == [t |-> "null", s |-> "null"]

NumToken(n) == [t |-> "num", s |-> n]

StrToken(str) == [t |-> "str", s |-> str]

\* The keys of the objects of the model, in the order of std::map<std::string>.
KeyOrder == <<"material", "shape">>

RECURSIVE Dump(_)
RECURSIVE DumpElements(_, _)
RECURSIVE DumpMembers(_, _, _)

\* The elements of an array from index i on, separated by commas.
DumpElements(elems, i) ==
    IF i > Len(elems) THEN <<>>
    ELSE (IF i > 1 THEN <<Punct(",")>> ELSE <<>>)
         \o Dump(elems[i]) \o DumpElements(elems, i + 1)

\* The members of an object whose keys are KeyOrder[k], k >= i, in key order.
DumpMembers(members, i, first) ==
    IF i > Len(KeyOrder) THEN <<>>
    ELSE IF KeyOrder[i] \in DOMAIN members
         THEN (IF first THEN <<>> ELSE <<Punct(",")>>)
              \o <<StrToken(KeyOrder[i]), Punct(":")>>
              \o Dump(members[KeyOrder[i]])
              \o DumpMembers(members, i + 1, FALSE)
         ELSE DumpMembers(members, i + 1, first)

\* operator<<(std::ostream&, const json&): the text of a document.
Dump(j) ==
    CASE j.type = "null" -> <<NullToken>>
      [] j.type = "number" -> <<NumToken(j.n)>>
      [] j.type = "string" -> <<StrToken(j.s)>>
      [] j.type = "array" -> <<Punct("[")>> \o DumpElements(j.elems, 1) \o <<Punct("]")>>
      [] j.type = "object" -> <<Punct("{")>> \o DumpMembers(j.members, 1, TRUE)
                              \o <<Punct("}")>>

ParseFail == [ok |-> FALSE, val |-> JNull, rest |-> <<>>]

ParseOk(val, rest) == [ok |-> TRUE, val |-> val, rest |-> rest]

IsPunct(tokens, c) ==
    /\ tokens /= <<>>
    /\ Head(tokens).t = "punct"
    /\ Head(tokens).s = c

RECURSIVE ParseValue(_)
RECURSIVE ParseElements(_, _)
RECURSIVE ParseMembers(_, _)

\* The elements of an array, the text starting at an element.
ParseElements(tokens, acc) ==
    LET v == ParseValue(tokens)
    IN IF ~v.ok THEN ParseFail
       ELSE IF IsPunct(v.rest, ",")
            THEN ParseElements(Tail(v.rest), Append(acc, v.val))
            ELSE IF IsPunct(v.rest, "]")
                 THEN ParseOk(JArray(Append(acc, v.val)), Tail(v.rest))
                 ELSE ParseFail

\* The members of an object, the text starting at a key.
ParseMembers(tokens, acc) ==
    IF tokens = <<>> \/ Head(tokens).t /= "str" \/ ~IsPunct(Tail(tokens), ":")
    THEN ParseFail
    ELSE LET key == Head(tokens).s
             v == ParseValue(Tail(Tail(tokens)))
             members == [k \in DOMAIN acc \cup {key} |->
                           IF k = key THEN v.val ELSE acc[k]]
         IN IF ~v.ok THEN ParseFail
            ELSE IF IsPunct(v.rest, ",")
                 THEN ParseMembers(Tail(v.rest), members)
                 ELSE IF IsPunct(v.rest, "}")
                      THEN ParseOk(JObject(members), Tail(v.rest))
                      ELSE ParseFail

\* One JSON value at the start of the text.
ParseValue(tokens) ==
    IF tokens = <<>> THEN ParseFail
    ELSE LET h == Head(tokens)
             r == Tail(tokens)
         IN CASE h.t = "null" -> ParseOk(JNull, r)
              [] h.t = "num" -> ParseOk(JNumber(h.s), r)
              [] h.t = "str" -> ParseOk(JString(h.s), r)
              [] h.t = "punct" ->
                   IF h.s = "["
                   THEN IF IsPunct(r, "]") THEN ParseOk(JArray(<<>>), Tail(r))
                        ELSE ParseElements(r, <<>>)
                   ELSE IF h.s = "{"
                        THEN IF IsPunct(r, "}")
                             THEN ParseOk(JObject([k \in {} |-> JNull]), Tail(r))
                             ELSE ParseMembers(r, [k \in {} |-> JNull])
                        ELSE ParseFail

\* operator>>(std::istream&, json&): parses one value from the start of the
\* stream (not strict: what follows the value is left in the stream).
Parse(tokens) == ParseValue(tokens)

\* json::items(): the elements of an array in order, the values of an object
\* in key order, nothing for null, the value itself for a number or a string.
RECURSIVE MemberValues(_, _)
MemberValues(members, i) ==
    IF i > Len(KeyOrder) THEN <<>>
    ELSE (IF KeyOrder[i] \in DOMAIN members THEN <<members[KeyOrder[i]]>> ELSE <<>>)
         \o MemberValues(members, i + 1)

Items(j) ==
    CASE j.type = "null" -> <<>>
      [] j.type = "array" -> j.elems
      [] j.type = "object" -> MemberValues(j.members, 1)
      [] OTHER -> <<j>>


(***************************************************************************)
(* Object states.  ObjectState.h is not part of the sources at hand: an    *)
(* object state is a snapshot with a material and a shape, written as a    *)
(* JSON object with one member per attribute and read back from one.       *)
(***************************************************************************)
MaterialTypes == {"METAL", "RUBBER"}

\* NLOHMANN_JSON_SERIALIZE_ENUM(SimulationMaterial::TYPE, ...): the table.
MaterialTable == <<[type |-> "METAL", json |-> JString("metal")],
                   [type |-> "RUBBER", json |-> JString("rubber")]>>

\* to_json of the enum: the entry of the value, the first entry if there is none.
MaterialToJson(type) ==
    IF \E i \in 1..Len(MaterialTable) : MaterialTable[i].type = type
    THEN MaterialTable[CHOOSE i \in 1..Len(MaterialTable) : MaterialTable[i].type = type].json
    ELSE MaterialTable[1].json

\* from_json of the enum: the entry of the document, the first entry if there is none.
MaterialFromJson(j) ==
    IF \E i \in 1..Len(MaterialTable) : MaterialTable[i].json = j
    THEN MaterialTable[CHOOSE i \in 1..Len(MaterialTable) : MaterialTable[i].json = j].type
    ELSE MaterialTable[1].type

ObjectStates == {[material |-> "METAL", shape |-> 0], [material |-> "RUBBER", shape |-> 1]}

ObjectState_to_json(o) ==
    JObject([k \in {"material", "shape"} |->
               IF k = "material" THEN MaterialToJson(o.material) ELSE JNumber(o.shape)])

\* Reading an element that is not an object with the members of an object
\* state throws.
ObjectState_from_json(value) ==
    IF /\ value.type = "object"
       /\ {"material", "shape"} \subseteq DOMAIN value.members
       /\ value.members["shape"].type = "number"
    THEN [ok |-> TRUE,
          state |-> [material |-> MaterialFromJson(value.members["material"]),
                     shape |-> value.members["shape"].n]]
    ELSE [ok |-> FALSE, state |-> <<>>]

(***************************************************************************)
(* Files.  A path has a file or not; a path outside Openable is in a       *)
(* directory that does not exist and can be opened neither for reading nor *)
(* for writing.                                                            *)
(***************************************************************************)
Paths == {"scene.json", "nodir/scene.json"}

Openable == {"scene.json"}

NoFile == [exists |-> FALSE, text |-> <<>>]

File(text) == [exists |-> TRUE, text |-> text]

\* std::ifstream i(filePath); i.is_open()
CanRead(fs, filePath) == filePath \in Openable /\ fs[filePath].exists

\* std::ofstream o(filePath); o.is_open()
CanWrite(fs, filePath) == filePath \in Openable

\* The outcome of a call: it returns true, returns false, or throws.
JSONHelper_saveJSON(fs, j, filePath) ==
    IF CanWrite(fs, filePath)
    THEN [result |-> "true", files |-> [fs EXCEPT ![filePath] = File(Dump(j))]]
    ELSE [result |-> "false", files |-> fs]

JSONHelper_loadJSON(fs, filePath) ==
    IF CanRead(fs, filePath)
    THEN LET parsed == Parse(fs[filePath].text)
         IN IF parsed.ok
            THEN [result |-> "true", j |-> parsed.val]
            ELSE [result |-> "throw", j |-> JNull]
    ELSE [result |-> "false", j |-> JNull]

(***************************************************************************)
(* The scene state.                                                        *)
(***************************************************************************)
SceneState_add(objs, objState) == Append(objs, objState)

SceneState_clear(objs) == <<>>

\* The loop of loadFromJSONFile over j.items(), from item i on.
RECURSIVE LoadLoop(_, _, _)
LoadLoop(objs, items, i) ==
    IF i > Len(items)
    THEN [result |-> "true", objects |-> objs]
    ELSE LET oState == ObjectState_from_json(items[i])
         IN IF oState.ok
            THEN LoadLoop(SceneState_add(objs, oState.state), items, i + 1)
            ELSE [result |-> "throw", objects |-> objs]

\* loadFromJSONFile that does not clear the list before it adds the loaded objects.
SceneState_loadFromJSONFile_NoClear(objs, fs, fromFile, toWorld) ==
    IF toWorld
    THEN LET fileLoadRes == JSONHelper_loadJSON(fs, fromFile)
         IN CASE fileLoadRes.result = "throw" ->
                   [result |-> "throw", objects |-> objs, fileLoadRes |-> "throw"]
              [] fileLoadRes.result = "true" ->
                   [fileLoadRes |-> "true"] @@ LoadLoop(objs, Items(fileLoadRes.j), 1)
              [] OTHER ->
                   [result |-> "false", objects |-> objs, fileLoadRes |-> "false"]
    ELSE [result |-> "false", objects |-> objs, fileLoadRes |-> "not called"]

SceneState_loadFromJSONFile(objs, fs, fromFile, toWorld) ==
    IF toWorld
    THEN LET fileLoadRes == JSONHelper_loadJSON(fs, fromFile)
         IN CASE fileLoadRes.result = "throw" ->
                   [result |-> "throw", objects |-> objs, fileLoadRes |-> "throw"]
              [] fileLoadRes.result = "true" ->
                   [fileLoadRes |-> "true"]
                   @@ LoadLoop(SceneState_clear(objs), Items(fileLoadRes.j), 1)
              [] OTHER ->
                   [result |-> "false", objects |-> objs, fileLoadRes |-> "false"]
    ELSE [result |-> "false", objects |-> objs, fileLoadRes |-> "not called"]

RECURSIVE ToJSONLoop(_, _, _)
\* push_back on null makes the document an array.
ToJSONLoop(jScene, objs, i) ==
    IF i > Len(objs) THEN jScene
    ELSE LET jObject == ObjectState_to_json(objs[i])
         IN ToJSONLoop(IF jScene.type = "null" THEN JArray(<<jObject>>)
                       ELSE JArray(Append(jScene.elems, jObject)),
                       objs, i + 1)

\* toJSON that writes the objects last to first.
SceneState_toJSON_Reversed(objs) ==
    ToJSONLoop(JNull, [i \in 1..Len(objs) |-> objs[Len(objs) + 1 - i]], 1)

SceneState_toJSON(objs) == ToJSONLoop(JNull, objs, 1)

SceneState_saveToJSONFile(objs, fs, fromWorld, toFile) ==
    IF fromWorld
    THEN JSONHelper_saveJSON(fs, SceneState_toJSON(objs), toFile)
    ELSE [result |-> "false", files |-> fs]

(***************************************************************************)
(* Actions of the scene state.                                             *)
(***************************************************************************)
NoSceneCall ==
    [op |-> "none", path |-> "", world |-> FALSE, result |-> "none",
     fileLoadRes |-> "not called", before |-> <<>>]

NotSaved == [saved |-> FALSE, list |-> <<>>]

SceneAdd ==
    /\ Len(objects) < MaxObjects
    /\ \E objState \in ObjectStates :
         /\ objects' = SceneState_add(objects, objState)
         /\ sceneCall' = [op |-> "add", path |-> "", world |-> FALSE, result |-> "none",
                          fileLoadRes |-> "not called", before |-> objects]
    /\ UNCHANGED <<files, saved, rendererVars>>

SceneClear ==
    /\ objects' = SceneState_clear(objects)
    /\ sceneCall' = [op |-> "clear", path |-> "", world |-> FALSE, result |-> "none",
                     fileLoadRes |-> "not called", before |-> objects]
    /\ UNCHANGED <<files, saved, rendererVars>>

SceneLoad ==
    /\ \E fromFile \in Paths, toWorld \in BOOLEAN :
         LET r == SceneState_loadFromJSONFile(objects, files, fromFile, toWorld)
         IN /\ objects' = r.objects
            /\ sceneCall' = [op |-> "load", path |-> fromFile, world |-> toWorld,
                             result |-> r.result, fileLoadRes |-> r.fileLoadRes,
                             before |-> objects]
    /\ UNCHANGED <<files, saved, rendererVars>>

SceneSave ==
    /\ \E toFile \in Paths, fromWorld \in BOOLEAN :
         LET r == SceneState_saveToJSONFile(objects, files, fromWorld, toFile)
         IN /\ files' = r.files
            /\ saved' = IF r.result = "true"
                        THEN [saved EXCEPT ![toFile] = [saved |-> TRUE, list |-> objects]]
                        ELSE saved
            /\ sceneCall' = [op |-> "save", path |-> toFile, world |-> fromWorld,
                             result |-> r.result, fileLoadRes |-> "not called",
                             before |-> objects]
    /\ UNCHANGED <<objects, rendererVars>>

\* What the file of the scene may hold before the program runs: nothing at
\* all, an empty file, a text cut short, a scene of one object, a number, an
\* array of a number.
InitialFiles ==
    {NoFile,
     File(<<>>),
     File(<<Punct("["), Punct("{")>>),
     File(Dump(JArray(<<ObjectState_to_json([material |-> "RUBBER", shape |-> 1])>>))),
     File(Dump(JNumber(5))),
     File(Dump(JArray(<<ObjectState_to_json([material |-> "METAL", shape |-> 0]),
                        JNumber(5)>>)))}

(***************************************************************************)
(* Specifications.                                                         *)
(***************************************************************************)
vars == <<rendererVars, sceneVars>>

\* The renderer as its constructor leaves it, in either build.
InitRenderer ==
    /\ RENDER_TEXTURES \in BOOLEAN
    /\ m_points = NULL
    /\ m_lines = NULL
    /\ m_triangles = NULL
    /\ m_bIsDebugMode = FALSE
    /\ m_sPath = ""
    /\ m_nWidth = 0
    /\ m_nHeight = 0
    /\ gl = GLUnbound
    /\ lastCall = NoCall
    /\ frame = EmptyFrame

\* An empty scene state; the file of the scene holds any of the initial files.
InitScene ==
    /\ objects = <<>>
    /\ \E f \in InitialFiles :
         files = [p \in Paths |-> IF p \in Openable THEN f ELSE NoFile]
    /\ saved = [p \in Paths |-> NotSaved]
    /\ sceneCall = NoSceneCall

Init == InitRenderer /\ InitScene

\* The batches, called directly.
NextBatch ==
    \/ Create
    \/ PointsVertex
    \/ LinesVertex
    \/ TrianglesVertex
    \/ TrianglesTexVertex
    \/ PointsFlush
    \/ LinesFlush
    \/ TrianglesFlush

SpecBatch == Init /\ [][NextBatch]_vars

\* The renderer, called through its public interface.
NextRenderer ==
    \/ Create
    \/ DrawSegment
    \/ DrawPoint
    \/ DrawSolidPolygon
    \/ DrawTexturedPolygon
    \/ Flush
    \/ setIsDebugMode
    \/ setFileOutput

SpecRenderer == Init /\ [][NextRenderer]_vars

\* The scene state and its files.
NextScene ==
    \/ SceneAdd
    \/ SceneClear
    \/ SceneLoad
    \/ SceneSave

SpecScene == Init /\ [][NextScene]_vars

\* The draw requests of the engine's debug-draw interface, the debug flag and Flush.
NextShapes ==
    \/ Create
    \/ setIsDebugMode
    \/ DrawPolygon
    \/ DrawSolidPolygon
    \/ DrawCircle
    \/ DrawSolidCircle
    \/ DrawSegment
    \/ DrawTransform
    \/ DrawAABB
    \/ Flush

SpecShapes == Init /\ [][NextShapes]_vars

\* The life of the renderer: created, used for frames, destroyed.
NextLifecycle ==
    \/ Create
    \/ DrawSegment
    \/ DrawPoint
    \/ Flush
    \/ Destroy

SpecLifecycle == Init /\ [][NextLifecycle]_vars

Next == NextBatch \/ NextRenderer \/ NextScene \/ NextShapes \/ NextLifecycle

Spec == Init /\ [][Next]_vars

(***************************************************************************)
(* Properties of the batches.                                              *)
(***************************************************************************)
BatchOf(b) ==
    CASE b = "points" -> m_points
      [] b = "lines" -> m_lines
      [] b = "triangles" -> m_triangles

Draws(events) == SelectSeq(events, LAMBDA e : e.kind = "draw")

\* The step is a call of Vertex on batch b.
VertexStep(b) == lastCall'.op = "Vertex" /\ lastCall'.batch = b

\* The step is a call of Flush on batch b.
FlushStep(b) == lastCall'.op = "Flush" /\ lastCall'.batch = b

\* C1: once created, each batch holds between 0 and e_maxVertices entries, and
\* every write of a call into the arrays of a batch is at an index in
\* 0 .. e_maxVertices - 1.
C1_CountWithinCapacity ==
    Created =>
        /\ \A b \in Batches : BatchOf(b).m_count \in 0..e_maxVertices(b)
        /\ \A i \in 1..Len(lastCall.writes) :
             lastCall.writes[i].index \in 0..(e_maxVertices(lastCall.writes[i].batch) - 1)

\* A batch is full and the last call wrote its last slot.
C1_Witness ==
    /\ Created
    /\ lastCall.op = "Vertex"
    /\ lastCall.batch = "lines"
    /\ m_lines.m_count = GLRenderLines_e_maxVertices
    /\ lastCall.writes[1].index = GLRenderLines_e_maxVertices - 1

\* C2: Vertex on a batch that holds e_maxVertices entries issues exactly one
\* draw call, covering the e_maxVertices buffered entries, and leaves the batch
\* with one entry, the new one; Vertex on a batch that holds fewer issues no
\* draw call and the count grows by one.
C2_AutoFlush ==
    [][\A b \in Batches :
         VertexStep(b) =>
           IF BatchOf(b).m_count = e_maxVertices(b)
           THEN /\ Len(Draws(lastCall'.events)) = 1
                /\ Draws(lastCall'.events)[1].batch = b
                /\ Draws(lastCall'.events)[1].count = e_maxVertices(b)
                /\ Draws(lastCall'.events)[1].data
                     = [i \in 1..e_maxVertices(b) |-> BatchOf(b).m_entries[i - 1]]
                /\ BatchOf(b)'.m_count = 1
                /\ BatchOf(b)'.m_entries[0] = lastCall'.args
                /\ lastCall'.writes = <<[batch |-> b, index |-> 0, entry |-> lastCall'.args]>>
           ELSE /\ lastCall'.events = <<>>
                /\ BatchOf(b)'.m_count = BatchOf(b).m_count + 1
                /\ BatchOf(b)'.m_entries
                     = [BatchOf(b).m_entries EXCEPT ![BatchOf(b).m_count] = lastCall'.args]
      ]_vars

\* The last call was a Vertex that flushed the full triangle batch first.
C2_Witness ==
    /\ Created
    /\ lastCall.op = "Vertex"
    /\ lastCall.batch = "triangles"
    /\ Len(Draws(lastCall.events)) = 1
    /\ m_triangles.m_count = 1

\* C3: Flush on an empty batch issues no upload and no draw call and changes
\* neither the batches nor the graphics context; Flush on a batch of k > 0
\* entries uploads these k entries, issues one draw call covering entries
\* 0 .. k-1, and leaves the count at zero.
C3_Flush ==
    [][\A b \in Batches :
         FlushStep(b) =>
           IF BatchOf(b).m_count = 0
           THEN /\ lastCall'.events = <<>>
                /\ UNCHANGED <<m_points, m_lines, m_triangles, gl>>
           ELSE LET k == BatchOf(b).m_count
                    held == [i \in 1..k |-> BatchOf(b).m_entries[i - 1]]
                    ev == lastCall'.events
                IN /\ Len(ev) = 2
                   /\ ev[1].kind = "upload" /\ ev[1].batch = b
                   /\ ev[1].count = k /\ ev[1].data = held
                   /\ ev[2].kind = "draw" /\ ev[2].batch = b
                   /\ ev[2].count = k /\ ev[2].data = held
                   /\ BatchOf(b)'.m_count = 0
                   /\ \A o \in Batches \ {b} : BatchOf(o)' = BatchOf(o)
      ]_vars

\* The last call was a Flush of a partly filled triangle batch.
C3_Witness ==
    /\ Created
    /\ lastCall.op = "Flush"
    /\ lastCall.batch = "triangles"
    /\ Len(lastCall.events) = 2
    /\ lastCall.events[2].count = 2
    /\ m_triangles.m_count = 0

(***************************************************************************)
(* Properties of the renderer.                                             *)
(***************************************************************************)
\* The step is a call of SimulationRenderer::Flush.
RendererFlushStep ==
    /\ lastCall'.op = "Flush"
    /\ lastCall'.batch = "none"
    /\ UNCHANGED settingVars

\* The place of an event in the order triangles, lines, points, video frame.
Rank(e) ==
    CASE e.kind = "video" -> 3
      [] e.batch = "triangles" -> 0
      [] e.batch = "lines" -> 1
      [] e.batch = "points" -> 2

Ordered(events) ==
    \A i \in 1..Len(events), j \in 1..Len(events) :
        i < j => Rank(events[i]) <= Rank(events[j])

Videos(events) == SelectSeq(events, LAMBDA e : e.kind = "video")

\* C4: SimulationRenderer::Flush flushes the triangles, then the lines, then
\* the points, each batch that holds entries, and hands the frame to the video
\* encoder after the three, once, exactly when video output is on.
C4_FlushOrder ==
    [][RendererFlushStep =>
         LET ev == lastCall'.events
         IN /\ Ordered(ev)
            /\ \A b \in Batches :
                 /\ Len(SelectSeq(Draws(ev), LAMBDA e : e.batch = b))
                      = (IF BatchOf(b).m_count > 0 THEN 1 ELSE 0)
                 /\ BatchOf(b)'.m_count = 0
            /\ Len(Videos(ev)) = (IF writingToVideo(m_sPath) THEN 1 ELSE 0)
            /\ \A i \in 1..Len(ev) : ev[i].kind = "video" => i = Len(ev)
      ]_vars

\* The last call was a Flush that drew the three batches and wrote a video frame.
C4_Witness ==
    /\ lastCall.op = "Flush"
    /\ lastCall.batch = "none"
    /\ Len(Draws(lastCall.events)) = 3
    /\ Len(Videos(lastCall.events)) = 1

\* C5: within a frame every draw call of the triangles comes before every
\* draw call of the lines, and every draw call of the lines before every draw
\* call of the points.
C5_FrameDrawOrder == Ordered(Draws(frame.log))

(***************************************************************************)
(* Properties of the draw requests.                                        *)
(***************************************************************************)
\* The entries the last call appended to batch b, in the order of the appends.
Appended(b) == EntriesWritten(lastCall.writes, b)

\* C11: DrawPolygon on N vertices appends 2N entries to the line batch, the
\* segment (vertex[N-1], vertex[0]) first and then the segments
\* (vertex[i-1], vertex[i]) for i in 1..N-1, all in the colour of the request,
\* and appends nothing to the triangle batch or the point batch.
C11_DrawPolygonOutline ==
    lastCall.op = "DrawPolygon" =>
        LET vs == lastCall.args.vertices
            N == Len(vs)
            line(v) == [v |-> v, c |-> lastCall.args.color]
        IN /\ Len(Appended("lines")) = 2 * N
           /\ Appended("lines")[1] = line(vs[N])
           /\ Appended("lines")[2] = line(vs[1])
           /\ \A k \in 2..N :
                /\ Appended("lines")[2 * k - 1] = line(vs[k - 1])
                /\ Appended("lines")[2 * k] = line(vs[k])
           /\ Appended("triangles") = <<>>
           /\ Appended("points") = <<>>

\* The last call was a DrawPolygon whose outline did not fit into the line batch at once.
C11_Witness ==
    /\ lastCall.op = "DrawPolygon"
    /\ Len(lastCall.args.vertices) >= 3
    /\ Len(Appended("lines")) = 2 * Len(lastCall.args.vertices)
    /\ Len(Draws(lastCall.events)) >= 2

\* C12: DrawSolidPolygon on N vertices appends 3 * (N - 2) entries to the
\* triangle batch, the triangles (vertex[0], vertex[i], vertex[i+1]) for
\* i = 1..N-2 in this order, in the build with textures and in the build
\* without.
C12_SolidPolygonFan ==
    lastCall.op = "DrawSolidPolygon" =>
        LET vs == lastCall.args.vertices
            N == Len(vs)
        IN /\ Len(Appended("triangles")) = 3 * (N - 2)
           /\ \A i \in 1..(N - 2) :
                /\ Appended("triangles")[3 * i - 2].v = vs[1]
                /\ Appended("triangles")[3 * i - 1].v = vs[i + 1]
                /\ Appended("triangles")[3 * i].v = vs[i + 2]

\* C13: DrawCircle appends 2 * 16 entries to the line batch, each segment
\* starting at the point the segment before it ended at, and DrawSolidCircle
\* appends 3 * 16 entries to the triangle batch, each triangle with the centre
\* as its first vertex, whatever the centre and the radius.
C13_CircleSegments ==
    /\ lastCall.op = "DrawCircle" =>
          /\ Len(Appended("lines")) = 2 * k_segments
          /\ \A k \in 1..(k_segments - 1) :
               Appended("lines")[2 * k].v = Appended("lines")[2 * k + 1].v
    /\ lastCall.op = "DrawSolidCircle" =>
          /\ Len(Appended("triangles")) = 3 * k_segments
          /\ \A i \in 1..k_segments :
               Appended("triangles")[3 * i - 2].v = lastCall.args.center

\* The step is a call of the draw request op; the debug flag it sees is m_bIsDebugMode.
RequestStep(op) == lastCall'.op = op /\ UNCHANGED settingVars

\* The colour of a request with r, g and b multiplied by factor, and alpha factor.
Scaled(color, factor) ==
    [r |-> FMul(factor, color.r), g |-> FMul(factor, color.g), b |-> FMul(factor, color.b),
     a |-> factor]

\* The segment (p, q) is among the entries, as two entries in a row.
HasSegment(entries, p, q) ==
    \E k \in 1..(Len(entries) - 1) : entries[k].v = p /\ entries[k + 1].v = q

\* What a call of DrawSolidCircle does, as C14 states it.
C14_Step ==
    RequestStep("DrawSolidCircle") =>
        LET a == lastCall'.args
            fill == EntriesWritten(lastCall'.writes, "triangles")
            lines == EntriesWritten(lastCall'.writes, "lines")
            factor == IF m_bIsDebugMode THEN ColorHalf ELSE ColorOne
        IN /\ fill /= <<>>
           /\ \A i \in 1..Len(fill) : fill[i].c = Scaled(a.color, factor)
           /\ IF m_bIsDebugMode
              THEN HasSegment(lines, a.center, AxisPoint(a.center, a.radius, a.axis))
              ELSE lines = <<>>

\* C14: DrawSolidCircle fills with the colour and alpha of the request
\* multiplied by 0.5 exactly when the debug flag is set and by 1.0 when it is
\* clear; it appends the radius line (centre, centre + radius * axis) to the
\* line batch when the flag is set and nothing to the line batch when it is
\* clear.
C14_SolidCircleDebug == [][C14_Step]_vars

\* The entries of the closed outline of a polygon in one colour.
Outline(vs, color) ==
    [k \in 1..(2 * Len(vs)) |->
        [v |-> IF k = 1 THEN vs[Len(vs)] ELSE vs[(k + (k % 2)) \div 2 - (k % 2)],
         c |-> color]]

\* What a call of DrawSolidPolygon and a call of setIsDebugMode do, as C15
\* states it.
C15_Step ==
    /\ RequestStep("DrawSolidPolygon") =>
          LET a == lastCall'.args
              N == Len(a.vertices)
              fill == EntriesWritten(lastCall'.writes, "triangles")
              lines == EntriesWritten(lastCall'.writes, "lines")
              factor == IF m_bIsDebugMode THEN ColorHalf ELSE ColorOne
          IN /\ Len(fill) = 3 * (N - 2)
             /\ \A i \in 1..Len(fill) : fill[i].c = Scaled(a.color, factor)
             /\ lines = IF m_bIsDebugMode THEN Outline(a.vertices, a.color) ELSE <<>>
    /\ m_bIsDebugMode' /= m_bIsDebugMode =>
          UNCHANGED <<RENDER_TEXTURES, m_points, m_lines, m_triangles, m_sPath, m_nWidth,
                      m_nHeight, gl>>

\* C15: with the debug flag set DrawSolidPolygon on N vertices appends the
\* N - 2 fill triangles in the colour of the request with r, g, b and alpha
\* multiplied by 0.5 and the 2N entries of the closed outline in the colour of
\* the request; with the flag clear it fills with factor 1.0 and appends
\* nothing to the line batch.  setIsDebugMode changes the flag only, and a
\* draw request sees the flag last set.
C15_SolidPolygonDebug == [][C15_Step]_vars

\* C16: every Flush of a batch, called or automatic, leaves no program, vertex
\* array, array buffer or texture bound and nothing enabled that it bound or
\* enabled: a call on the created renderer, which reaches the graphics
\* context through Vertex and Flush of the batches only, leaves the binding
\* state as it found it.
C16_BindingsBracketed == [][Created => gl' = gl]_vars

\* C17: after Create and Destroy every vertex array, buffer and program that
\* the three batches created has been deleted: none is alive in the graphics
\* context.
C17_HandlesReleased ==
    lastCall.op = "Destroy" =>
        /\ gl.vertexArrays = {}
        /\ gl.buffers = {}
        /\ gl.programs = {}

RECURSIVE DrawnData(_)
DrawnData(draws) ==
    IF draws = <<>> THEN <<>> ELSE Head(draws).data \o DrawnData(Tail(draws))

DrawsOfBatch(log, b) == SelectSeq(Draws(log), LAMBDA e : e.batch = b)

\* C18: once SimulationRenderer::Flush has ended a frame, for each batch the
\* vertices of its draw calls of the frame, automatic and final, in the order
\* of the calls, are the sequence of entries appended to the batch in the
\* frame, each once and in the order of appending, and the three batches are
\* empty.
C18_NothingLost ==
    frame.done =>
        \A b \in Batches :
            /\ DrawnData(DrawsOfBatch(frame.log, b)) = frame.appended[b]
            /\ BatchOf(b).m_count = 0

\* A finished frame in which a batch was flushed by an append and by the
\* final flush, and another batch holds entries too.
C18_Witness ==
    /\ frame.done
    /\ lastCall.op = "Flush"
    /\ \E b \in Batches : Len(DrawsOfBatch(frame.log, b)) >= 2
    /\ Cardinality({b \in Batches : frame.appended[b] /= <<>>}) >= 2

\* C19: every draw call of the line batch covers an even number of vertices
\* and every draw call of the triangle batch a multiple of three, the draw
\* calls of the automatic flushes included, and between the draw requests
\* and Flush the line batch holds an even number of entries and the triangle
\* batch a multiple of three.
C19_WholePrimitives ==
    /\ \A i \in 1..Len(lastCall.events) :
         LET e == lastCall.events[i]
         IN e.kind = "draw" =>
              /\ e.batch = "lines" => e.count % 2 = 0
              /\ e.batch = "triangles" => e.count % 3 = 0
    /\ Created =>
         /\ m_lines.m_count % 2 = 0
         /\ m_triangles.m_count % 3 = 0

\* The last call was a draw request during which the line batch or the
\* triangle batch became full and was flushed, and which left entries in it.
C19_Witness ==
    /\ lastCall.op \in {"DrawPolygon", "DrawSolidPolygon", "DrawCircle", "DrawSolidCircle",
                        "DrawSegment", "DrawTransform", "DrawAABB"}
    /\ \E b \in {"lines", "triangles"} :
         /\ DrawsOfBatch(lastCall.events, b) /= <<>>
         /\ BatchOf(b).m_count > 0

(***************************************************************************)
(* Properties of the scene state.                                          *)
(***************************************************************************)
\* The document of the file the last call named.
FileDocument == Parse(files[sceneCall.path].text)

\* C6: a loadFromJSONFile that does not succeed returns false and leaves the
\* object list as it was before the call.
C6_FailedLoadKeepsList ==
    (sceneCall.op = "load" /\ sceneCall.result /= "true") =>
        /\ sceneCall.result = "false"
        /\ objects = sceneCall.before

\* C7: after a loadFromJSONFile that returned true the object list is the
\* objects of the elements of the loaded document, one per element, in the
\* order of the document, whatever the list held before.
C7_LoadReplacesList ==
    (sceneCall.op = "load" /\ sceneCall.result = "true") =>
        LET items == Items(FileDocument.val)
        IN /\ Len(objects) = Len(items)
           /\ \A i \in 1..Len(items) :
                /\ ObjectState_from_json(items[i]).ok
                /\ objects[i] = ObjectState_from_json(items[i]).state

\* A load succeeded on a scene state that held other objects than the file.
C7_Witness ==
    /\ sceneCall.op = "load"
    /\ sceneCall.result = "true"
    /\ Len(sceneCall.before) = MaxObjects
    /\ Len(objects) = 1
    /\ objects[1] /= sceneCall.before[1]

\* C8: loading the file a saveToJSONFile wrote yields the saved object list,
\* same length, same values, same order, and saving the loaded list writes the
\* text of the file again.
C8_RoundTrip ==
    (sceneCall.op = "load" /\ sceneCall.result = "true" /\ saved[sceneCall.path].saved) =>
        /\ objects = saved[sceneCall.path].list
        /\ SceneState_saveToJSONFile(objects, files, TRUE, sceneCall.path).files = files

\* Two different objects were saved, the list changed, and the load brought them back.
C8_Witness ==
    /\ sceneCall.op = "load"
    /\ sceneCall.result = "true"
    /\ saved[sceneCall.path].saved
    /\ Len(objects) = 2
    /\ objects[1] /= objects[2]
    /\ sceneCall.before /= objects

\* C9: saving an empty object list writes a document whose root is an empty
\* array, and loading that document yields an empty object list.
C9_EmptySceneIsEmptyArray ==
    /\ (sceneCall.op = "save" /\ sceneCall.result = "true" /\ sceneCall.before = <<>>) =>
          /\ FileDocument.ok
          /\ FileDocument.val = JArray(<<>>)
    /\ (/\ sceneCall.op = "load"
        /\ sceneCall.result = "true"
        /\ saved[sceneCall.path].saved
        /\ saved[sceneCall.path].list = <<>>) => objects = <<>>

\* C10: loadJSON returns false when the path cannot be opened, returns false
\* when the text of the file does not parse, and returns true only with the
\* document parsed from the file.
C10_LoadJSONReportsFailure ==
    (sceneCall.op = "load" /\ sceneCall.fileLoadRes /= "not called") =>
        LET outcome == JSONHelper_loadJSON(files, sceneCall.path)
        IN /\ ~CanRead(files, sceneCall.path) => sceneCall.fileLoadRes = "false"
           /\ (CanRead(files, sceneCall.path) /\ ~FileDocument.ok) =>
                sceneCall.fileLoadRes = "false"
           /\ sceneCall.fileLoadRes = "true" =>
                /\ CanRead(files, sceneCall.path)
                /\ FileDocument.ok
                /\ outcome.j = FileDocument.val

====
